---- MODULE Spec2Model ----
(***************************************************************************)
(* The notification store of packages/module-v2: NotificationProvider      *)
(* (Notification.tsx) and the demo component App (Module.tsx).              *)
(*                                                                         *)
(* The provider keeps the list `notifications` in React state.  The        *)
(* context value is memoised on that list, so the functions a consumer     *)
(* holds close over the list as it was at the last render (`value`), while *)
(* the functional updaters given to setNotifications run on the current    *)
(* list.  The toaster is the external KoliBri ToasterService: enqueue      *)
(* opens a widget and resolves to its close function, closeAll closes      *)
(* every widget.                                                           *)
(*                                                                         *)
(* Consumers live under the provider, so the context's operations are      *)
(* called only while it is mounted; an enqueue that was awaited at unmount *)
(* still resolves or rejects afterwards.                                   *)
(***************************************************************************)
EXTENDS Integers, Sequences, FiniteSets

\* Bounds of the model.
MaxEnqueue == 2

\* type: 'info' | 'success' | 'warning' | 'error'; the store never reads which of
\* the four a content notification has, one of them is kept
ContentTypes == {"info"}
\* type: 401 | 403
StatusTypes == {"401", "403"}
\* id?: string; "" is a string that is falsy in `notification.id && ...`
Ids == {"a", ""}
\* the value of an absent id / an absent closeFn
NoId == "undefined"
NoFn == 0

VARIABLES
    notifications,  \* the React state: sequence of [type, id, closeFn]
    value,          \* the list captured by the memoised context value
    pending,        \* addNotification calls suspended at `await toaster.enqueue`, each
                    \* with the close function it invoked before enqueueing
    open,           \* widgets open in the toaster
    enqueueCalls,   \* number of toaster.enqueue calls made
    closeCalled,    \* the widgets whose close function the store has invoked
    mounted,        \* the provider is mounted
    last            \* the last step: the operation, closeNotification's argument, the close
                    \* function it invoked and whether that function had been invoked
                    \* before, the number of closeAll calls it made, the number of
                    \* entries it removed from the list

vars == <<notifications, value, pending, open, enqueueCalls, closeCalled,
          mounted, last>>

toasterVars == <<open, enqueueCalls, closeCalled>>

Step(op, id, fn, n, removed) ==
    [op |-> op, id |-> id, fn |-> fn, again |-> fn \in closeCalled,
     closeAll |-> n, removed |-> removed]

Entry(t, id, fn) == [type |-> t, id |-> id, closeFn |-> fn]

IsStatus(n) == n.type \in StatusTypes

\* JavaScript truthiness of notification.id
Truthy(id) == id # NoId /\ id # ""

\* Array.prototype.some / find on n.id === id
Some(list, id) == \E i \in 1..Len(list) : list[i].id = id

Find(list, id) ==
    LET i == CHOOSE k \in 1..Len(list) :
                 /\ list[k].id = id
                 /\ \A j \in 1..(k - 1) : list[j].id # id
    IN list[i]

\* old.filter((n) => n.id !== id)
FilterId(old, id) ==
    LET Keep(n) == n.id # id IN SelectSeq(old, Keep)

\* a plausible slip: only the status-code entries of the same kind are purged
StatusUpdaterSameKind(old, t) ==
    LET Keep(o) == o.type # t
    IN Append(SelectSeq(old, Keep), Entry(t, NoId, NoFn))

\* a plausible slip: the new status-code entry replaces the whole list
StatusUpdaterReplaceAll(old, t) == <<Entry(t, NoId, NoFn)>>

\* (old) => [...old.filter((o) => o.type !== 401 && o.type !== 403), { type }]
StatusUpdater(old, t) ==
    LET Keep(o) == o.type # "401" /\ o.type # "403"
    IN Append(SelectSeq(old, Keep), Entry(t, NoId, NoFn))

\* a plausible slip: the new entry is appended without filtering on the id
AddUpdaterNoFilter(old, t, id, fn) == Append(old, Entry(t, id, fn))

\* a plausible slip: the filter also drops the entries that have no id
AddUpdaterDropsNoId(old, t, id, fn) ==
    LET Keep(n) == n.id # NoId /\ n.id # id
    IN Append(SelectSeq(old, Keep), Entry(t, id, fn))

\* a plausible slip: the new entry is put in front of the list
AddUpdaterPrepend(old, t, id, fn) == <<Entry(t, id, fn)>> \o FilterId(old, id)

\* a plausible slip: an entry that carries the id is kept and the new one dropped
AddUpdaterKeepsOld(old, t, id, fn) ==
    IF Some(old, id) THEN old ELSE Append(old, Entry(t, id, fn))

\* a plausible slip: the list is filtered only when the notification has an id
AddUpdaterKeepsNoId(old, t, id, fn) ==
    Append(IF id = NoId THEN old ELSE FilterId(old, id), Entry(t, id, fn))

\* (old) => [...old.filter((n) => n.id !== notification.id), {...notification, closeFn}]
AddUpdater(old, t, id, fn) == Append(FilterId(old, id), Entry(t, id, fn))

\* (old) => old.filter((n) => n.id !== id)
CloseUpdater(old, id) == FilterId(old, id)

\* setNotifications(next): the list becomes next
SetNotifications(new) == notifications' = new

\* the toaster after closeFn?.() : the widget is closed, the call is counted
CloseFnOpen(fn) == IF fn = NoFn THEN open ELSE open \ {fn}

CloseFnCalls(fn) == IF fn = NoFn THEN closeCalled ELSE closeCalled \cup {fn}

\* the close function of the entry of `list` that carries id, NoFn if none
PriorOf(list, id) ==
    IF id # NoId /\ Some(list, id) THEN Find(list, id).closeFn ELSE NoFn

Init ==
    /\ notifications = <<>>
    /\ value = <<>>
    /\ pending = {}
    /\ open = {}
    /\ enqueueCalls = 0
    /\ closeCalled = {}
    /\ mounted = TRUE
    /\ last = [op |-> "init", id |-> NoId, fn |-> NoFn, again |-> FALSE,
               closeAll |-> 0, removed |-> 0]

\* addNotification with type 401 | 403 (lines 84-87)
AddStatus(t) ==
    /\ mounted
    /\ SetNotifications(StatusUpdater(notifications, t))
    /\ last' = Step("addStatus", NoId, NoFn, 0,
                    Len(notifications) + 1 - Len(notifications'))
    /\ UNCHANGED <<value, pending, toasterVars, mounted>>

\* the close function addNotification invokes before enqueueing (lines 89-91)
AddClosesFn(id) ==
    IF Truthy(id) /\ Some(value, id) THEN Find(value, id).closeFn ELSE NoFn

\* addNotification with a content notification, up to the await (lines 88-92)
AddCall(t, id) ==
    /\ mounted
    /\ enqueueCalls < MaxEnqueue
    /\ open' = CloseFnOpen(AddClosesFn(id))
    /\ closeCalled' = CloseFnCalls(AddClosesFn(id))
    /\ enqueueCalls' = enqueueCalls + 1
    /\ pending' = pending \cup
           {[w |-> enqueueCalls + 1, type |-> t, id |-> id, phase |-> "awaiting",
             prior |-> PriorOf(notifications, id), closed |-> AddClosesFn(id)]}
    /\ last' = Step("addCall", NoId, AddClosesFn(id), 0, 0)
    /\ UNCHANGED <<notifications, value, mounted>>

\* the toaster shows the widget of an enqueued notification
ToasterAccept(c) ==
    /\ c.phase = "awaiting"
    /\ open' = open \cup {c.w}
    /\ pending' = (pending \ {c}) \cup {[c EXCEPT !.phase = "accepted"]}
    /\ last' = Step("accept", NoId, NoFn, 0, 0)
    /\ UNCHANGED <<notifications, value, enqueueCalls, closeCalled, mounted>>

\* the enqueue resolves: addNotification after the await (lines 105-110)
AddResolve(c) ==
    /\ c.phase = "accepted"
    /\ SetNotifications(AddUpdater(notifications, c.type, c.id, c.w))
    /\ pending' = pending \ {c}
    /\ last' = Step("addResolve", NoId, NoFn, 0,
                    Len(notifications) + 1 - Len(notifications'))
    /\ UNCHANGED <<value, toasterVars, mounted>>

\* the enqueue rejects: the await throws, addNotification ends (line 92)
AddReject(c) ==
    /\ c.phase = "awaiting"
    /\ pending' = pending \ {c}
    /\ last' = Step("addReject", NoId, NoFn, 0, 0)
    /\ UNCHANGED <<notifications, value, toasterVars, mounted>>

\* the demo's button: addNotification({type: 'info', ...}) without id
AppClick == AddCall("info", NoId)

\* closeNotification(id) (lines 112-118)
CloseNotification(id) ==
    /\ mounted
    /\ IF Some(value, id)
       THEN /\ open' = CloseFnOpen(Find(value, id).closeFn)
            /\ closeCalled' = CloseFnCalls(Find(value, id).closeFn)
            /\ SetNotifications(CloseUpdater(notifications, id))
       ELSE UNCHANGED <<notifications, open, closeCalled>>
    /\ last' = Step("closeNotification", id,
                    IF Some(value, id) THEN Find(value, id).closeFn ELSE NoFn, 0,
                    Len(notifications) - Len(notifications'))
    /\ UNCHANGED <<value, pending, enqueueCalls, mounted>>

\* toaster.closeAll()
CloseAll == open' = {}

\* a plausible slip: the list is cleared, the toaster is not told
ResetNotificationsNoCloseAll ==
    /\ mounted
    /\ SetNotifications(<<>>)
    /\ last' = Step("resetNotifications", NoId, NoFn, 0, Len(notifications))
    /\ UNCHANGED <<value, pending, open, enqueueCalls, closeCalled, mounted>>

\* a plausible slip: the reset also drops the adds that await the toaster
ResetNotificationsCancels ==
    /\ mounted
    /\ CloseAll
    /\ SetNotifications(<<>>)
    /\ pending' = {}
    /\ last' = Step("resetNotifications", NoId, NoFn, 1, Len(notifications))
    /\ UNCHANGED <<value, enqueueCalls, closeCalled, mounted>>

\* resetNotifications() (lines 119-122)
ResetNotifications ==
    /\ mounted
    /\ CloseAll
    /\ SetNotifications(<<>>)
    /\ last' = Step("resetNotifications", NoId, NoFn, 1, Len(notifications))
    /\ UNCHANGED <<value, pending, enqueueCalls, closeCalled, mounted>>

\* a plausible slip: the cleanup closes the widgets and keeps the list
TeardownKeepsList ==
    /\ mounted
    /\ CloseAll
    /\ mounted' = FALSE
    /\ last' = Step("teardown", NoId, NoFn, 1, 0)
    /\ UNCHANGED <<notifications, value, pending, enqueueCalls, closeCalled>>

\* the effect's cleanup at unmount (lines 128-131)
Teardown ==
    /\ mounted
    /\ CloseAll
    /\ SetNotifications(<<>>)
    /\ mounted' = FALSE
    /\ last' = Step("teardown", NoId, NoFn, 1, Len(notifications))
    /\ UNCHANGED <<value, pending, enqueueCalls, closeCalled>>

\* the provider re-renders: useMemo recomputes the context value (line 124)
Render ==
    /\ mounted
    /\ value # notifications
    /\ value' = notifications
    /\ last' = Step("render", NoId, NoFn, 0, 0)
    /\ UNCHANGED <<notifications, pending, toasterVars, mounted>>

Next ==
    \/ \E t \in StatusTypes : AddStatus(t)
    \/ \E t \in ContentTypes, id \in Ids : AddCall(t, id)
    \/ AppClick
    \/ \E c \in pending : ToasterAccept(c)
    \/ \E c \in pending : AddResolve(c)
    \/ \E c \in pending : AddReject(c)
    \/ \E id \in Ids : CloseNotification(id)
    \/ ResetNotifications
    \/ Teardown
    \/ Render

Spec == Init /\ [][Next]_vars

(***************************************************************************)
(* The claims.                                                             *)
(***************************************************************************)

\* the content entries of a list, in order
ContentOf(list) ==
    LET Keep(n) == ~IsStatus(n) IN SelectSeq(list, Keep)

\* the positions of the list whose entry carries id
Carrying(list, id) == {i \in 1..Len(list) : list[i].id = id}

\* C1: when addNotification is called with the id of an entry that is in the
\* list, the close callback of that entry has been invoked by the time the
\* new entry is appended, and the list then holds exactly one entry with
\* that id, the new one.
C1_DuplicateClosesPrior ==
    [][\A c \in pending :
          (c \notin pending' /\ last'.op = "addResolve" /\ c.prior # NoFn)
          => /\ c.prior \in closeCalled'
             /\ Cardinality(Carrying(notifications', c.id)) = 1
             /\ \A i \in Carrying(notifications', c.id) :
                    notifications'[i].closeFn = c.w]_vars

\* C2: whenever no addNotification is awaiting the toaster, the close
\* functions of the content entries of the list are exactly the widgets open
\* in the toaster, one entry per widget.
C2_ListMatchesToaster ==
    pending = {} =>
        /\ {ContentOf(notifications)[i].closeFn :
                i \in 1..Len(ContentOf(notifications))} = open
        /\ \A i, j \in 1..Len(ContentOf(notifications)) :
               ContentOf(notifications)[i].closeFn = ContentOf(notifications)[j].closeFn
               => i = j

\* C3: no two entries of the list carry the same defined id.
C3_UniqueIds ==
    \A i, j \in 1..Len(notifications) :
        (i # j /\ notifications[i].id # NoId)
        => notifications[i].id # notifications[j].id

\* C3 witness: the completion of an add removed the entry that carried its id.
C3_Witness ==
    /\ last.op = "addResolve"
    /\ last.removed = 1
    /\ notifications[Len(notifications)].id = "a"
    /\ Len(notifications) = 2

\* C4: when the enqueue of a content notification resolves whose id is
\* defined and carried by no entry of the list, the list becomes the old list
\* followed by the new entry with its close function.
C4_FreshIdAppends ==
    [][\A c \in pending :
          (/\ c \notin pending'
           /\ last'.op = "addResolve"
           /\ c.id # NoId
           /\ ~Some(notifications, c.id))
          => notifications' = Append(notifications, Entry(c.type, c.id, c.w))]_vars

\* C4 witness: an add with a fresh id completed on a list that held a content
\* entry and a status-code entry.
C4_Witness ==
    /\ last.op = "addResolve"
    /\ last.removed = 0
    /\ Len(notifications) = 3
    /\ notifications[3].id # NoId
    /\ \E i \in 1..2 : IsStatus(notifications[i])

\* C5: addNotification with a status-code notification leaves the content
\* entries as they are, in order, removes every status-code entry, appends
\* the new one without close function, and calls nothing of the toaster.
C5_StatusAddFrame ==
    [][last'.op = "addStatus"
       => /\ \E t \in StatusTypes :
                 notifications' =
                     Append(ContentOf(notifications), Entry(t, NoId, NoFn))
          /\ ContentOf(notifications') = ContentOf(notifications)
          /\ UNCHANGED <<open, enqueueCalls, closeCalled>>
          /\ last'.fn = NoFn
          /\ last'.closeAll = 0]_vars

\* C5 witness: a 403 replaced a status-code entry that stood between two
\* content entries whose widgets are open.
C5_Witness ==
    /\ last.op = "addStatus"
    /\ last.removed = 1
    /\ Len(notifications) = 3
    /\ notifications[3].type = "403"
    /\ open = {1, 2}

\* C6: the list holds at most one status-code entry.
C6_AtMostOneStatus ==
    Cardinality({i \in 1..Len(notifications) : IsStatus(notifications[i])}) <= 1

\* C6 witness: a 403 was added while a status-code entry was in the list.
C6_Witness ==
    /\ last.op = "addStatus"
    /\ last.removed = 1
    /\ notifications[Len(notifications)].type = "403"

\* C7: after resetNotifications the list is empty and closeAll was called.
C7_ResetEmpties ==
    last.op = "resetNotifications"
    => /\ notifications = <<>>
       /\ open = {}
       /\ last.closeAll = 1

\* C7 witness: a reset of a list of a content and a status-code entry while
\* an add is in flight.
C7_Witness ==
    /\ last.op = "resetNotifications"
    /\ last.removed = 2
    /\ pending # {}

\* C8: closeNotification(id) with an id that no entry of the list carries
\* leaves the list as it is and invokes no close callback and nothing of the
\* toaster.
C8_UnknownIdNoOp ==
    [][(last'.op = "closeNotification" /\ ~Some(notifications, last'.id))
       => /\ notifications' = notifications
          /\ last'.fn = NoFn
          /\ UNCHANGED <<open, enqueueCalls, closeCalled>>]_vars

\* C9: closeNotification(id) with an id that an entry of the list carries
\* invokes the close callback of that entry and removes the entry, the other
\* entries staying in order.
C9_CloseRemovesEntry ==
    [][(last'.op = "closeNotification" /\ Some(notifications, last'.id))
       => /\ last'.fn = Find(notifications, last'.id).closeFn
          /\ closeCalled' = closeCalled \cup {Find(notifications, last'.id).closeFn}
          /\ notifications' = FilterId(notifications, last'.id)]_vars

\* C10: teardown calls closeAll once and leaves the list empty.
C10_TeardownEmpties ==
    last.op = "teardown"
    => /\ notifications = <<>>
       /\ open = {}
       /\ last.closeAll = 1
       /\ ~mounted

\* C10 witness: a teardown of a non-empty list while an add is in flight.
C10_Witness ==
    /\ last.op = "teardown"
    /\ last.removed = 2
    /\ pending # {}

\* C11: once the provider is torn down no widget enqueued through it is open,
\* also when an addNotification was awaiting the toaster at teardown.
C11_NoWidgetAfterTeardown ==
    ~mounted => open = {}

\* the entries of a list, as a set
EntriesOf(list) == {list[i] : i \in 1..Len(list)}

\* C12: an entry leaves the list only by closeNotification with its id, by
\* resetNotifications, by teardown, by the completion of an add with its own
\* defined id, or, for a status-code entry, by the add of a status-code
\* notification.
C12_EntriesLeaveOnlyBy ==
    [][\A e \in EntriesOf(notifications) \ EntriesOf(notifications') :
          \/ last'.op = "closeNotification" /\ e.id = last'.id
          \/ last'.op \in {"resetNotifications", "teardown"}
          \/ /\ last'.op = "addResolve"
             /\ e.id # NoId
             /\ notifications'[Len(notifications')].id = e.id
          \/ last'.op = "addStatus" /\ IsStatus(e)]_vars

\* C13: when the toaster rejects an enqueue the list is as it was, the
\* notification is not in it, and no entry of the list had its close callback
\* invoked by the failed call.
C13_RejectLeavesStore ==
    [][\A c \in pending :
          (c \notin pending' /\ last'.op = "addReject")
          => /\ notifications' = notifications
             /\ \A e \in EntriesOf(notifications') :
                    e.closeFn # c.w /\ (c.closed # NoFn => e.closeFn # c.closed)]_vars

\* the content entries of list `a` that are also in list `b`, in the order of `a`
Common(a, b) ==
    LET Keep(n) == n.closeFn # NoFn /\ n \in EntriesOf(b) IN SelectSeq(a, Keep)

\* C14 as stated: of two content entries with distinct defined ids, the one
\* whose addNotification was called first stands first in the list.
C14_CallOrder ==
    \A i, j \in 1..Len(notifications) :
        (/\ i < j
         /\ notifications[i].closeFn # NoFn /\ notifications[j].closeFn # NoFn
         /\ notifications[i].id # NoId /\ notifications[j].id # NoId
         /\ notifications[i].id # notifications[j].id)
        => notifications[i].closeFn < notifications[j].closeFn

\* C14 amended: entries stand in the order in which their enqueues resolved:
\* the step in which an enqueue resolves puts the new entry last, and no step
\* changes the relative order of two content entries that stay in the list.
C14_CompletionOrder ==
    [][/\ \A c \in pending :
             (c \notin pending' /\ last'.op = "addResolve")
             => /\ Len(notifications') > 0
                /\ notifications'[Len(notifications')].closeFn = c.w
       /\ Common(notifications, notifications') =
              Common(notifications', notifications)]_vars

\* C14 witness: two adds with distinct ids completed in the reverse of the
\* order they were called in.
C14_Witness ==
    /\ last.op = "addResolve"
    /\ Len(notifications) = 2
    /\ notifications[1].closeFn = 2
    /\ notifications[2].closeFn = 1
    /\ notifications[1].id # NoId
    /\ notifications[2].id # NoId

\* C15: when the enqueue of an add with a defined id resolves, the list holds
\* exactly one entry with that id afterwards, the entry of this add; so of two
\* adds with the same id that were awaiting the toaster together, the one
\* whose enqueue resolved last is the one in the list.
C15_LastCompletedWins ==
    [][\A c \in pending :
          (c \notin pending' /\ last'.op = "addResolve" /\ c.id # NoId)
          => /\ Cardinality(Carrying(notifications', c.id)) = 1
             /\ \A i \in Carrying(notifications', c.id) :
                    notifications'[i].closeFn = c.w]_vars

\* C15 witness: the add called first resolved last and replaced the entry of
\* the add called second, which had the same id.
C15_Witness ==
    /\ last.op = "addResolve"
    /\ last.removed = 1
    /\ enqueueCalls = 2
    /\ pending = {}
    /\ notifications = <<Entry("info", "a", 1)>>
    /\ 2 \in open

\* C16: closeNotification and resetNotifications leave the adds that await
\* the toaster as they are, and when the enqueue of such an add resolves its
\* entry is appended.
C16_NoCancellation ==
    [][/\ last'.op \in {"closeNotification", "resetNotifications"}
          => pending' = pending
       /\ \A c \in pending :
             (c \notin pending' /\ last'.op = "addResolve")
             => /\ Len(notifications') > 0
                /\ notifications'[Len(notifications')] = Entry(c.type, c.id, c.w)]_vars

\* C16 witness: the only add ever requested completed after a reset had
\* closed its widget, so the list is not empty although nothing was requested
\* since the reset.
C16_Witness ==
    /\ last.op = "addResolve"
    /\ mounted
    /\ enqueueCalls = 1
    /\ pending = {}
    /\ Len(notifications) = 1
    /\ notifications[1].closeFn = 1
    /\ open = {}
    /\ closeCalled = {}

\* C17: no step of the store invokes a close callback that the store has
\* invoked before.
C17_CloseAtMostOnce ==
    ~last.again

\* the positions of the list that hold a content entry without id
NoIdContent(list) ==
    {i \in 1..Len(list) : ~IsStatus(list[i]) /\ list[i].id = NoId}

\* the entries of a list that have an id, in order
WithId(list) ==
    LET Keep(n) == n.id # NoId IN SelectSeq(list, Keep)

\* C18: the list holds at most one content entry without id; the completion
\* of an add without id drops every entry without id, content and
\* status-code alike, invokes no close callback and calls nothing of the
\* toaster, and appends its own entry.
C18_OneEntryWithoutId ==
    [][/\ Cardinality(NoIdContent(notifications)) <= 1
       /\ Cardinality(NoIdContent(notifications')) <= 1
       /\ \A c \in pending :
             (c \notin pending' /\ last'.op = "addResolve" /\ c.id = NoId)
             => /\ notifications' =
                       Append(WithId(notifications), Entry(c.type, NoId, c.w))
                /\ last'.fn = NoFn
                /\ UNCHANGED <<open, enqueueCalls, closeCalled>>]_vars

\* C18 witness: two adds without id, as two clicks on the demo's button make
\* them: both widgets are open, no close callback was invoked, and the list
\* holds the entry of the second alone.
C18_Witness ==
    /\ last.op = "addResolve"
    /\ last.removed = 1
    /\ enqueueCalls = 2
    /\ pending = {}
    /\ notifications = <<Entry("info", NoId, 2)>>
    /\ open = {1, 2}
    /\ closeCalled = {}

====
